---- MODULE Spec2Model ----
(***************************************************************************)
(* bfc-asm: the Brainfuck-to-assembly translator of src/src/main.rs and    *)
(* src/src/code.rs.                                                        *)
(*                                                                         *)
(* Two specifications share this module:                                   *)
(*   SpecRead  read_code: a file is read byte by byte, every byte goes     *)
(*             through Code::try_from(char::from(byte)), hits are pushed   *)
(*             on vec.                                                     *)
(*   Spec      compile: the prologue is written, then one step per item of *)
(*             the iterator codes, then the end-of-input check.  After a   *)
(*             call whose sink did not fail the caller may call compile a  *)
(*             second time with the same arguments (Recompile), which is   *)
(*             what lets two runs be compared.                             *)
(*                                                                         *)
(* Text produced by writeln!/format! is kept as the format string together *)
(* with the values substituted into its {} holes: [fmt, args].  A          *)
(* string literal handed to io::Error::new is text with no arguments.      *)
(* Every ? on a write   is modelled: a write may fail, and compile then    *)
(* returns the sink's error with the lines written so far left in place.   *)
(***************************************************************************)
EXTENDS Integers, Sequences, FiniteSets, TLC

\* ---------------------------------------------------------------- bounds
\* Longest instruction sequence handed to compile, and the most instructions
\* other than loop-start and loop-end in it.
MaxLen == 4
MaxSimple == 2
\* Longest file handed to read_code.
MaxFileLen == 3

\* ------------------------------------------------------------- code.rs
Code == {"MemInc", "MemDec", "PtrInc", "PtrDec",
         "SysWrite", "SysRead", "LoopStart", "LoopEnd"}

\* Result of a failed conversion, Err(()).
ErrUnit == "Err(())"

\* char::from(u8): the byte b becomes the code point U+00b.  Characters are
\* kept as their code points.
CharFromByte(b) == b

TryFromNoComma(from) ==
    CASE from = 43 -> "MemInc"
      [] from = 45 -> "MemDec"
      [] from = 62 -> "PtrInc"
      [] from = 60 -> "PtrDec"
      [] from = 46 -> "SysWrite"
      [] from = 91 -> "LoopStart"
      [] from = 93 -> "LoopEnd"
      [] OTHER -> "Err(())"

\* impl TryFrom<char> for Code.  43 '+', 45 '-', 62 '>', 60 '<', 46 '.',
\* 44 ',', 91 '[', 93 ']'.
TryFrom(from) ==
    CASE from = 43 -> "MemInc"
      [] from = 45 -> "MemDec"
      [] from = 62 -> "PtrInc"
      [] from = 60 -> "PtrDec"
      [] from = 46 -> "SysWrite"
      [] from = 44 -> "SysRead"
      [] from = 91 -> "LoopStart"
      [] from = 93 -> "LoopEnd"
      [] OTHER -> ErrUnit

DisplaySwapped(self) ==
    CASE self = "MemInc" -> 43
      [] self = "MemDec" -> 45
      [] self = "PtrInc" -> 60
      [] self = "PtrDec" -> 62
      [] self = "SysWrite" -> 46
      [] self = "SysRead" -> 44
      [] self = "LoopStart" -> 91
      [] self = "LoopEnd" -> 93

\* impl fmt::Display for Code: the character written for a variant.
Display(self) ==
    CASE self = "MemInc" -> 43
      [] self = "MemDec" -> 45
      [] self = "PtrInc" -> 62
      [] self = "PtrDec" -> 60
      [] self = "SysWrite" -> 46
      [] self = "SysRead" -> 44
      [] self = "LoopStart" -> 91
      [] self = "LoopEnd" -> 93

\* ------------------------------------------------------------- text
Line(fmt, args) == [fmt |-> fmt, args |-> args]

\* compile, lines 88-95.
Prologue(ts) ==
    << Line("section .bss", <<>>),
       Line("  tape_ptr RESQ 1", <<>>),
       Line("  tape RESB {}", <<ts>>),
       Line("section .text", <<>>),
       Line("  global _start", <<>>),
       Line("_start:", <<>>),
       Line("  mov EAX, tape+{}", <<ts \div 2>>) >>

\* compile, lines 101-119: the arms of the match that touch no counter.
SimpleCode == Code \ {"LoopStart", "LoopEnd"}

Emit(code) ==
    CASE code = "MemInc" -> << Line("  inc BYTE [EAX]", <<>>) >>
      [] code = "MemDec" -> << Line("  dec BYTE [EAX]", <<>>) >>
      [] code = "PtrInc" -> << Line("  inc EAX", <<>>) >>
      [] code = "PtrDec" -> << Line("  dec EAX", <<>>) >>
      [] code = "SysWrite" ->
            << Line("  mov tape_ptr, eax", <<>>),
               Line("  mov eax, [tape_ptr]", <<>>),
               Line("  mov ebx [tape_ptr+4]", <<>>),
               Line("  mov ecx, [tape_ptr+8]", <<>>),
               Line("  mov edx, [tape_ptr+12]", <<>>),
               Line("  mov esi, [tape_ptr+16]", <<>>),
               Line("  mov edi, [tape_ptr+20]", <<>>),
               Line("  int 0x80", <<>>),
               Line("  mov [tape_ptr], eax", <<>>),
               Line("  mov eax, tape_ptr", <<>>) >>
      [] code = "SysRead" -> << Line("  mov [eax], [[eax]]", <<>>) >>

\* compile, line 122.
LabelLine(n) == Line("label_{}:", <<n>>)

\* compile, line 132.
JumpLine(n) == Line("  jne label_{}", <<n>>)

\* ------------------------------------------------------------- results
\* io::Result<()> of compile; Pending while the call has not returned.  The
\* grave accents of the two error messages are written as apostrophes.
Pending == [tag |-> "Pending", kind |-> "", fmt |-> "", args |-> <<>>]
Ok == [tag |-> "Ok", kind |-> "", fmt |-> "", args |-> <<>>]

\* The error a failed fs::File::create or writeln! hands back through ?.
SinkErr == [tag |-> "Err", kind |-> "Sink", fmt |-> "", args |-> <<>>]

\* compile, lines 127-130.
UnderflowErr ==
    [tag |-> "Err", kind |-> "Other",
     fmt |-> "Compile error: Found a ']' code without a matching '['",
     args |-> <<>>]

\* compile, lines 138-141: a string literal, nothing is substituted.
UnclosedErr(open, close) ==
    [tag |-> "Err", kind |-> "Other",
     fmt |-> "Compile error: Reached end of file with {} '[' code(s) unclosed",
     args |-> <<>>]

\* compile, lines 97-98: let mut loop_open = 0usize, loop_close likewise.
\* old is what the previous call left behind.
StaleCounter(old) == old

NewCounter(old) == 0

\* compile, line 126.
UnderflowOffByOne(open, close) == close > open + 1

UnderflowEager(open, close) == close >= open

Underflow(open, close) == close > open

\* compile, line 137.
UnclosedOffByOne(open, close) == open > close + 1

UnclosedNever(open, close) == FALSE

Unclosed(open, close) == open > close

\* ------------------------------------------------------------- inputs
\* Bytes a file is made of: the eight instruction characters, NUL, newline,
\* space, '=', '\', 'a', '{' and 0xFF.
FileByte == {43, 45, 62, 60, 46, 44, 91, 93, 0, 10, 32, 61, 92, 97, 123, 255}

SeqsUpTo(S, n) == UNION {[1..k -> S] : k \in 0..n}

\* --tape-size values (u64).
TapeSize == {1024, 1048576}

VARIABLES
    \* read_code
    file,        \* the bytes of the file
    rpos,        \* bytes taken from file.bytes() so far
    vec,         \* the Vec<Code> being built
    rstat,       \* "idle" | "open" | "reading" | "ok" | "open_err" | "read_err"
    \* compile
    codes,       \* the items the iterator codes yields
    tape_size,
    pc,          \* "idle" | "call" | "for" | "early" | "ret"
    pos,         \* items taken from the iterator so far
    out,         \* lines in the output file
    loop_open,
    loop_close,
    ret,         \* what compile returned
    second,      \* TRUE in the second call
    prev_out,    \* out and ret at the end of the first call
    prev_ret

rvars == <<file, rpos, vec, rstat>>
cvars == <<codes, tape_size, pc, pos, out, loop_open, loop_close, ret,
           second, prev_out, prev_ret>>
vars == <<file, rpos, vec, rstat, codes, tape_size, pc, pos, out, loop_open,
          loop_close, ret, second, prev_out, prev_ret>>

ReadIdle ==
    /\ file = <<>>
    /\ rpos = 0
    /\ vec = <<>>
    /\ rstat = "idle"

CompileIdle ==
    /\ codes = <<>>
    /\ tape_size = 0
    /\ pc = "idle"
    /\ pos = 0
    /\ out = <<>>
    /\ loop_open = 0
    /\ loop_close = 0
    /\ ret = Pending
    /\ second = FALSE
    /\ prev_out = <<>>
    /\ prev_ret = Pending

\* ------------------------------------------------------------ read_code
InitRead ==
    /\ file \in SeqsUpTo(FileByte, MaxFileLen)
    /\ rpos = 0
    /\ vec = <<>>
    /\ rstat = "open"
    /\ CompileIdle

\* Line 67-68: fs::File::open, which may fail.
ReadOpen ==
    /\ rstat = "open"
    /\ \E opened \in BOOLEAN :
         rstat' = IF opened THEN "reading" ELSE "open_err"
    /\ UNCHANGED <<file, rpos, vec>>
    /\ UNCHANGED cvars

\* Lines 67-75, one turn of the loop: the next byte, which may be a read
\* error (line 71), is converted and kept when it is an instruction.
ReadByte ==
    /\ rstat = "reading"
    /\ rpos < Len(file)
    /\ \E readable \in BOOLEAN :
         IF readable
         THEN LET code == TryFrom(CharFromByte(file[rpos + 1]))
              IN /\ vec' = IF code # ErrUnit THEN Append(vec, code) ELSE vec
                 /\ rpos' = rpos + 1
                 /\ rstat' = rstat
         ELSE /\ rstat' = "read_err"
              /\ UNCHANGED <<vec, rpos>>
    /\ UNCHANGED file
    /\ UNCHANGED cvars

\* Line 76: the iterator is exhausted, Ok(vec).
ReadDone ==
    /\ rstat = "reading"
    /\ rpos = Len(file)
    /\ rstat' = "ok"
    /\ UNCHANGED <<file, rpos, vec>>
    /\ UNCHANGED cvars

NextRead == ReadOpen \/ ReadByte \/ ReadDone

SpecRead == InitRead /\ [][NextRead]_vars

\* -------------------------------------------------------------- compile
Init ==
    /\ ReadIdle
    /\ codes \in {s \in SeqsUpTo(Code, MaxLen) :
                     Cardinality({i \in 1..Len(s) : s[i] \in SimpleCode})
                         <= MaxSimple}
    /\ tape_size \in TapeSize
    /\ pc = "call"
    /\ pos = 0
    /\ out = <<>>
    /\ loop_open = 0
    /\ loop_close = 0
    /\ ret = Pending
    /\ second = FALSE
    /\ prev_out = <<>>
    /\ prev_ret = Pending

\* writeln!(out, ..)? for each of lines in turn, n of them succeeding: all
\* of them and the loop goes on, fewer and ? returns the sink's error.
Writeln(lines, n) ==
    /\ out' = out \o SubSeq(lines, 1, n)
    /\ IF n = Len(lines)
       THEN pc' = "for" /\ ret' = ret
       ELSE pc' = "ret" /\ ret' = SinkErr

\* Lines 86-98: create (truncate) the file, write the prologue, declare the
\* two counters.  A failure here returns before the counters exist.
CompileBegin ==
    /\ pc = "call"
    /\ \E created \in BOOLEAN, n \in 0..Len(Prologue(tape_size)) :
         IF ~created
         THEN /\ n = 0
              /\ pc' = "early"
              /\ ret' = SinkErr
              /\ UNCHANGED <<out, loop_open, loop_close>>
         ELSE /\ out' = SubSeq(Prologue(tape_size), 1, n)
              /\ IF n = Len(Prologue(tape_size))
                 THEN /\ pc' = "for"
                      /\ ret' = ret
                      /\ loop_open' = NewCounter(loop_open)
                      /\ loop_close' = NewCounter(loop_close)
                 ELSE /\ pc' = "early"
                      /\ ret' = SinkErr
                      /\ UNCHANGED <<loop_open, loop_close>>
    /\ UNCHANGED <<codes, tape_size, pos, second, prev_out, prev_ret>>
    /\ UNCHANGED rvars

\* Lines 101-119.
CompileSimple ==
    /\ pc = "for"
    /\ pos < Len(codes)
    /\ codes[pos + 1] \in SimpleCode
    /\ pos' = pos + 1
    /\ \E n \in 0..Len(Emit(codes[pos + 1])) : Writeln(Emit(codes[pos + 1]), n)
    /\ UNCHANGED <<codes, tape_size, loop_open, loop_close, second, prev_out,
                   prev_ret>>
    /\ UNCHANGED rvars

\* Lines 120-123.
CompileLoopStart ==
    /\ pc = "for"
    /\ pos < Len(codes)
    /\ codes[pos + 1] = "LoopStart"
    /\ pos' = pos + 1
    /\ loop_open' = loop_open + 1
    /\ \E n \in 0..1 : Writeln(<< LabelLine(loop_open') >>, n)
    /\ UNCHANGED <<codes, tape_size, loop_close, second, prev_out, prev_ret>>
    /\ UNCHANGED rvars

CompileLoopEndWriteFirst ==
    /\ pc = "for"
    /\ pos < Len(codes)
    /\ codes[pos + 1] = "LoopEnd"
    /\ pos' = pos + 1
    /\ loop_close' = loop_close + 1
    /\ IF Underflow(loop_open, loop_close')
       THEN /\ pc' = "ret"
            /\ ret' = UnderflowErr
            /\ out' = Append(out, JumpLine(loop_close'))
       ELSE \E n \in 0..1 : Writeln(<< JumpLine(loop_close') >>, n)
    /\ UNCHANGED <<codes, tape_size, loop_open, second, prev_out, prev_ret>>
    /\ UNCHANGED rvars

\* Lines 124-133.
CompileLoopEnd ==
    /\ pc = "for"
    /\ pos < Len(codes)
    /\ codes[pos + 1] = "LoopEnd"
    /\ pos' = pos + 1
    /\ loop_close' = loop_close + 1
    /\ IF Underflow(loop_open, loop_close')
       THEN /\ pc' = "ret"
            /\ ret' = UnderflowErr
            /\ out' = out
       ELSE \E n \in 0..1 : Writeln(<< JumpLine(loop_close') >>, n)
    /\ UNCHANGED <<codes, tape_size, loop_open, second, prev_out, prev_ret>>
    /\ UNCHANGED rvars

\* Lines 137-144: the iterator is exhausted.
CompileEnd ==
    /\ pc = "for"
    /\ pos = Len(codes)
    /\ pc' = "ret"
    /\ ret' = IF Unclosed(loop_open, loop_close)
              THEN UnclosedErr(loop_open, loop_close)
              ELSE Ok
    /\ UNCHANGED <<codes, tape_size, pos, out, loop_open, loop_close, second,
                   prev_out, prev_ret>>
    /\ UNCHANGED rvars

\* After a call that the sink did not cut short, the caller calls compile
\* again with the same sequence, tape size and path.  The file is as the
\* first call left it until line 86 truncates it.
Recompile ==
    /\ pc = "ret"
    /\ ret # SinkErr
    /\ ~second
    /\ second' = TRUE
    /\ prev_out' = out
    /\ prev_ret' = ret
    /\ pc' = "call"
    /\ pos' = 0
    /\ ret' = Pending
    /\ UNCHANGED <<codes, tape_size, out, loop_open, loop_close>>
    /\ UNCHANGED rvars

Next ==
    \/ CompileBegin
    \/ CompileSimple
    \/ CompileLoopStart
    \/ CompileLoopEnd
    \/ CompileEnd
    \/ Recompile

Spec == Init /\ [][Next]_vars

\* ============================================================== claims
\* What the claims speak of, computed from the inputs alone.

\* Loop-starts and loop-ends among the first n items of codes.
Starts(n) == Cardinality({i \in 1..n : codes[i] = "LoopStart"})
Ends(n) == Cardinality({i \in 1..n : codes[i] = "LoopEnd"})

\* Some prefix holds more loop-ends than loop-starts; the first such prefix
\* ends at the offending loop-end.
Underflows == \E n \in 1..Len(codes) : Ends(n) > Starts(n)
FirstUnderflow ==
    CHOOSE n \in 1..Len(codes) :
        /\ Ends(n) > Starts(n)
        /\ \A m \in 1..(n - 1) : Ends(m) <= Starts(m)
Balanced == ~Underflows /\ Starts(Len(codes)) = Ends(Len(codes))
LeftOpen == ~Underflows /\ Starts(Len(codes)) > Ends(Len(codes))

Returned == pc \in {"early", "ret"}

\* The loop-start that the loop-end at position i closes: going left from
\* i, the first loop-start not closed by a loop-end in between.
RECURSIVE MatchFrom(_, _)
MatchFrom(j, depth) ==
    IF j = 0 THEN 0
    ELSE IF codes[j] = "LoopEnd" THEN MatchFrom(j - 1, depth + 1)
    ELSE IF codes[j] = "LoopStart"
         THEN IF depth = 0 THEN j ELSE MatchFrom(j - 1, depth - 1)
    ELSE MatchFrom(j - 1, depth)
Match(i) == MatchFrom(i - 1, 0)

\* Number of output lines one instruction stands for, and the index in out
\* of the first line of the instruction at position i.
Size(code) == IF code \in SimpleCode THEN Len(Emit(code)) ELSE 1
RECURSIVE SizeUpTo(_)
SizeUpTo(n) == IF n = 0 THEN 0 ELSE SizeUpTo(n - 1) + Size(codes[n])
LineOf(i) == Len(Prologue(tape_size)) + SizeUpTo(i - 1) + 1

\* The text of the instruction at position i has been written in full.
Emitted(i) ==
    /\ pc \in {"for", "ret"}
    /\ \/ i < pos
       \/ i = pos /\ ret \notin {SinkErr, UnderflowErr}

\* The text that the first n instructions stand for, the way compile numbers
\* labels: the k-th loop-start by k, the k-th loop-end by k.
RECURSIVE Translation(_)
Translation(n) ==
    IF n = 0 THEN <<>>
    ELSE Translation(n - 1) \o
         (IF codes[n] = "LoopStart" THEN << LabelLine(Starts(n)) >>
          ELSE IF codes[n] = "LoopEnd" THEN << JumpLine(Ends(n)) >>
          ELSE Emit(codes[n]))

\* C1: in an accepted sequence every loop-end jumps to the label that its
\* matching (innermost still open) loop-start defined.
C1_JumpsToMatchingLabel ==
    (pc = "ret" /\ ret = Ok) =>
        \A i \in 1..Len(codes) :
            codes[i] = "LoopEnd" =>
                /\ out[LineOf(i)].fmt = JumpLine(0).fmt
                /\ out[LineOf(Match(i))].fmt = LabelLine(0).fmt
                /\ out[LineOf(i)].args = out[LineOf(Match(i))].args

\* C2: with a sink that never fails, compile returns Ok for every balanced
\* sequence, and no loop is open then.
C2_BalancedAccepted ==
    (Returned /\ ret # SinkErr /\ Balanced) =>
        /\ ret = Ok
        /\ pos = Len(codes)
        /\ loop_open - loop_close = 0

C2_Witness ==
    /\ pc = "ret"
    /\ ret = Ok
    /\ Balanced
    /\ Len(codes) = 4
    /\ codes[1] = "LoopStart"
    /\ codes[2] = "LoopStart"

\* C3 as stated: every sequence with an underflowing prefix ends in the
\* underflow error, raised at the first unmatched loop-end.
C3_UnderflowAlwaysReported ==
    (Returned /\ Underflows) =>
        /\ ret = UnderflowErr
        /\ pos = FirstUnderflow

\* C3 amended: for a sequence with an underflowing prefix compile never
\* returns Ok, and unless the sink fails first it returns the underflow
\* error at the first loop-end that has no open loop-start.
C3_UnderflowReportedUnlessSinkFails ==
    (Returned /\ Underflows) =>
        /\ ret # Ok
        /\ ret # SinkErr => (ret = UnderflowErr /\ pos = FirstUnderflow)

C3_Witness ==
    /\ pc = "ret"
    /\ ret = UnderflowErr
    /\ pos = 3
    /\ codes[1] = "LoopStart"
    /\ Len(codes) = 4

\* C4 as stated: every sequence without underflow but with more loop-starts
\* than loop-ends ends in the unclosed-loop error after its last instruction.
C4_UnclosedAlwaysReported ==
    (Returned /\ LeftOpen) =>
        /\ ret = UnclosedErr(loop_open, loop_close)
        /\ pos = Len(codes)

\* C4 amended: for such a sequence compile never returns Ok, and unless the
\* sink fails first it returns the unclosed-loop error once the last
\* instruction has been processed.
C4_UnclosedReportedUnlessSinkFails ==
    (Returned /\ LeftOpen) =>
        /\ ret # Ok
        /\ ret # SinkErr =>
              (ret = UnclosedErr(loop_open, loop_close) /\ pos = Len(codes))

C4_Witness ==
    /\ pc = "ret"
    /\ ret = UnclosedErr(loop_open, loop_close)
    /\ LeftOpen
    /\ codes = << "LoopStart", "MemInc" >>

\* C5: the unclosed-loop error carries the number of unclosed loop-starts,
\* loop-starts seen minus loop-ends seen.
C5_UnclosedErrorNamesCount ==
    (pc = "ret" /\ ret.tag = "Err" /\ ret.kind = "Other" /\ LeftOpen) =>
        \E k \in 1..Len(ret.args) :
            ret.args[k] = Starts(Len(codes)) - Ends(Len(codes))

\* C6 as stated: wherever the counters exist, loop_open - loop_close is the
\* number of loop-starts minus loop-ends processed, is never negative, and is
\* zero when compile returns Ok.
C6_OpenCountNeverNegative ==
    pc \in {"for", "ret"} =>
        /\ loop_open - loop_close = Starts(pos) - Ends(pos)
        /\ loop_open - loop_close >= 0
        /\ ret = Ok => loop_open - loop_close = 0

\* C6 amended: loop_open - loop_close is the number of loop-starts minus
\* loop-ends processed and is zero when compile returns Ok; it is never
\* negative until an underflow is detected, and is -1 in the state in which
\* compile returns the underflow error.
C6_OpenCountNegativeOnlyAtUnderflow ==
    pc \in {"for", "ret"} =>
        /\ loop_open - loop_close = Starts(pos) - Ends(pos)
        /\ ret # UnderflowErr => loop_open - loop_close >= 0
        /\ ret = UnderflowErr => loop_open - loop_close = -1
        /\ ret = Ok => loop_open - loop_close = 0

C6_Witness ==
    /\ pc = "ret"
    /\ ret = UnderflowErr
    /\ loop_open = 1
    /\ loop_close = 2

\* C9: when compile has returned the underflow error, the output is the
\* prologue followed by the text of the instructions before the offending
\* loop-end, nothing more, and no step of the loop can be taken any more.
C9_UnderflowStopsAndKeepsOutput ==
    (pc = "ret" /\ ret = UnderflowErr) =>
        /\ pos = FirstUnderflow
        /\ out = Prologue(tape_size) \o Translation(pos - 1)
        /\ ~ENABLED (CompileSimple \/ CompileLoopStart \/ CompileLoopEnd
                     \/ CompileEnd)

C9_Witness ==
    /\ pc = "ret"
    /\ ret = UnderflowErr
    /\ pos = 2
    /\ Len(codes) = 4
    /\ codes[1] = "SysWrite"
    /\ codes[4] = "MemInc"
    /\ Len(out) = Len(Prologue(tape_size)) + Len(Emit("SysWrite"))

\* Indices of the label definitions in out.
LabelDefs == {a \in 1..Len(out) : out[a].fmt = LabelLine(0).fmt}

\* Loop-starts of the running call whose label definition reached the file:
\* all that were processed, but for one whose write the sink refused.
LabelsWritten ==
    IF ret = SinkErr /\ pos >= 1 /\ codes[pos] = "LoopStart"
    THEN loop_open - 1
    ELSE loop_open

\* C10: the k-th loop-start processed in a call defines label k, so no two
\* label definitions in the output are the same, and a second call on the
\* same sequence and tape size yields the same text as the first.
C10_LabelsNumberedPerCall ==
    /\ pc \in {"for", "ret"} =>
          LET defs == LabelDefs
          IN /\ Cardinality(defs) = LabelsWritten
             /\ loop_open = Starts(pos)
             /\ \A a \in defs :
                   out[a] = LabelLine(Cardinality({b \in defs : b <= a}))
             /\ \A a, b \in defs : a # b => out[a] # out[b]
    /\ (second /\ pc = "ret" /\ ret # SinkErr) =>
          (out = prev_out /\ ret = prev_ret)

C10_Witness ==
    /\ second
    /\ pc = "ret"
    /\ ret = Ok
    /\ loop_open = 2
    /\ \E a, b \in 1..Len(out) : out[a] = LabelLine(1) /\ out[b] = LabelLine(2)

\* The eight instruction characters + - > < . , [ ] and the instruction each
\* stands for.
InstructionChar == {43, 45, 62, 60, 46, 44, 91, 93}
InstructionOf ==
    [c \in InstructionChar |->
        CASE c = 43 -> "MemInc"
          [] c = 45 -> "MemDec"
          [] c = 62 -> "PtrInc"
          [] c = 60 -> "PtrDec"
          [] c = 46 -> "SysWrite"
          [] c = 44 -> "SysRead"
          [] c = 91 -> "LoopStart"
          [] c = 93 -> "LoopEnd"]

\* The instructions of the first n bytes of file, in order.
RECURSIVE Filtered(_)
Filtered(n) ==
    IF n = 0 THEN <<>>
    ELSE IF file[n] \in InstructionChar
         THEN Append(Filtered(n - 1), InstructionOf[file[n]])
         ELSE Filtered(n - 1)

\* C7: read_code returns exactly the instruction characters of the input,
\* each as its instruction, in order; every other byte adds nothing.
C7_ReadCodeFilters ==
    /\ rstat \in {"reading", "ok"} => vec = Filtered(rpos)
    /\ rstat = "ok" =>
          /\ rpos = Len(file)
          /\ Len(vec) <= Len(file)
          /\ \A k \in 1..Len(vec) :
                \E i \in 1..Len(file) :
                    file[i] \in InstructionChar /\ InstructionOf[file[i]] = vec[k]

C7_Witness ==
    /\ rstat = "ok"
    /\ Len(file) = 3
    /\ file[2] \notin InstructionChar
    /\ vec = << "LoopStart", "LoopEnd" >>

\* C8: on the characters read and the instructions stored, conversion and
\* display are inverse to each other: displaying the instruction of an
\* instruction character gives the character back, converting the displayed
\* character of an instruction gives the instruction back, and every other
\* character converts to no instruction.
C8_CharCodeBijection ==
    /\ \A i \in 1..rpos :
          LET c == CharFromByte(file[i])
          IN IF c \in InstructionChar
             THEN TryFrom(c) \in Code /\ Display(TryFrom(c)) = c
             ELSE TryFrom(c) = ErrUnit
    /\ \A k \in 1..Len(vec) : TryFrom(Display(vec[k])) = vec[k]
    /\ \A k, l \in 1..Len(vec) :
          vec[k] # vec[l] => Display(vec[k]) # Display(vec[l])

C8_Witness ==
    /\ rstat = "ok"
    /\ Len(file) = 3
    /\ file[1] = 60
    /\ file[2] = 123
    /\ vec = << "PtrDec", "PtrInc" >>

====
